---- MODULE Spec2Model ----
(***************************************************************************)
(* Relation graph builder and join-alias registration of ormar:            *)
(* ormar/models/helpers/relations.py.                                      *)
(*                                                                         *)
(* State: every model's Meta.model_fields (an insertion-ordered mapping    *)
(* name -> field), the RelationDescriptor attributes set on model classes, *)
(* and the alias registry of the module-level alias_manager.               *)
(***************************************************************************)
EXTENDS Integers, Sequences, FiniteSets, TLC

VARIABLES
    model_fields,   \* model -> sequence of fields (Meta.model_fields, in dict order)
    descriptors,    \* model -> names set with setattr(model, name, RelationDescriptor)
    aliases,        \* alias_manager: <<model, relation name>> -> alias token
    issued,         \* number of alias tokens generated so far in the process
    last,           \* the most recent call: [op, err, again]; again marks a
                    \* call on declared fields that had been handled before
    declared,       \* <<owner, name>> of the relation fields the schema author wrote
    expanded,       \* declared fields whose expand_reverse_relationship returned
    registered,     \* declared fields whose alias registration ran while resolved
    deferred        \* declared fields the builder visited while still unresolved

vars == <<model_fields, descriptors, aliases, issued, last, declared,
          expanded, registered, deferred>>

\* Largest number of relation fields a schema author declares in one schema.
MaxDecl == 3

None == "None"

Models == {"A", "B", "C", "J"}

\* Model.get_name(lower=True): the lower-cased class name.
get_name(m) ==
    CASE m = "A" -> "a"
      [] m = "B" -> "b"
      [] m = "C" -> "c"
      [] m = "J" -> "j"

\* Model.Meta: every model class of the schema carries its own Meta object.
Meta(m) == <<"Meta", m>>

(***************************************************************************)
(* Field objects.                                                          *)
(***************************************************************************)

\* ormar.ForeignKey(to, real_name=, virtual=, related_name=, owner=,
\*                  self_reference=, orders_by=, skip_field=)
ForeignKey(to, real_name, virtual, related_name, owner, self_reference, orders_by, skip_field) ==
    [name |-> real_name, owner |-> owner, to |-> to,
     related_name |-> related_name,
     is_relation |-> TRUE, is_multi |-> FALSE, is_through |-> FALSE,
     virtual |-> virtual, through |-> None,
     self_reference |-> self_reference, self_reference_primary |-> None,
     orders_by |-> orders_by, related_orders_by |-> None,
     skip_field |-> skip_field, skip_reverse |-> FALSE,
     through_relation_name |-> None, through_reverse_relation_name |-> None,
     nullable |-> TRUE, unresolved |-> FALSE]

\* ormar.ManyToMany(to, through=, name=, virtual=, related_name=, owner=,
\*                  self_reference=, self_reference_primary=, orders_by=,
\*                  skip_field=, through_relation_name=,
\*                  through_reverse_relation_name=)
ManyToMany(to, through, name, virtual, related_name, owner, self_reference, self_reference_primary, orders_by, skip_field, through_relation_name, through_reverse_relation_name) ==
    [name |-> name, owner |-> owner, to |-> to,
     related_name |-> related_name,
     is_relation |-> TRUE, is_multi |-> TRUE, is_through |-> FALSE,
     virtual |-> virtual, through |-> through,
     self_reference |-> self_reference,
     self_reference_primary |-> self_reference_primary,
     orders_by |-> orders_by, related_orders_by |-> None,
     skip_field |-> skip_field, skip_reverse |-> FALSE,
     through_relation_name |-> through_relation_name,
     through_reverse_relation_name |-> through_reverse_relation_name,
     nullable |-> TRUE, unresolved |-> FALSE]

\* ormar.fields.Through(to, real_name=, virtual=, related_name=, owner=,
\*                      nullable=)
Through(to, real_name, virtual, related_name, owner, nullable) ==
    [name |-> real_name, owner |-> owner, to |-> to,
     related_name |-> related_name,
     is_relation |-> TRUE, is_multi |-> FALSE, is_through |-> TRUE,
     virtual |-> virtual, through |-> None,
     self_reference |-> FALSE, self_reference_primary |-> None,
     orders_by |-> None, related_orders_by |-> None,
     skip_field |-> FALSE, skip_reverse |-> FALSE,
     through_relation_name |-> None, through_reverse_relation_name |-> None,
     nullable |-> nullable, unresolved |-> FALSE]

\* A plain (non-relation) column such as the primary key.
PlainField(owner, name) ==
    [name |-> name, owner |-> owner, to |-> None,
     related_name |-> None,
     is_relation |-> FALSE, is_multi |-> FALSE, is_through |-> FALSE,
     virtual |-> FALSE, through |-> None,
     self_reference |-> FALSE, self_reference_primary |-> None,
     orders_by |-> None, related_orders_by |-> None,
     skip_field |-> FALSE, skip_reverse |-> FALSE,
     through_relation_name |-> None, through_reverse_relation_name |-> None,
     nullable |-> FALSE, unresolved |-> FALSE]

\* field.has_unresolved_forward_refs(): the target is still a ForwardRef.
has_unresolved_forward_refs(field) == field.unresolved

\* field.get_related_name(): the explicit override, else owner name + "s".
get_related_name(field) ==
    IF field.related_name # None
    THEN field.related_name
    ELSE get_name(field.owner) \o "s"

\* field.default_source_field_name(): the junction's column to the owner.
default_source_field_name(field) ==
    IF field.through_relation_name # None
    THEN field.through_relation_name
    ELSE (IF field.self_reference THEN "to_" ELSE "") \o get_name(field.owner)

\* field.default_target_field_name(): the junction's column to the target.
default_target_field_name(field) ==
    IF field.through_reverse_relation_name # None
    THEN field.through_reverse_relation_name
    ELSE (IF field.self_reference THEN "from_" ELSE "") \o get_name(field.to)

\* field.get_source_related_name(): the reverse name registered for the
\* owner side; a foreign key uses its related name, a many-to-many field the
\* name of the relation that leads to the target, i.e. its own name.
get_source_related_name(field) ==
    IF field.is_multi THEN field.name ELSE get_related_name(field)

(***************************************************************************)
(* Meta.model_fields as an insertion-ordered dict.                         *)
(***************************************************************************)

Keys(mf, m) == {mf[m][i].name : i \in DOMAIN mf[m]}

Get(mf, m, k) == mf[m][CHOOSE i \in DOMAIN mf[m] : mf[m][i].name = k]

\* model.Meta.model_fields[field.name] = field: an existing key keeps its
\* position and gets the new value, a new key is appended.
Put(mf, m, field) ==
    IF field.name \in Keys(mf, m)
    THEN [mf EXCEPT ![m] =
            [i \in DOMAIN mf[m] |->
                IF mf[m][i].name = field.name THEN field ELSE mf[m][i]]]
    ELSE [mf EXCEPT ![m] = Append(mf[m], field)]

(***************************************************************************)
(* Reverse-relation expansion.  A world w = [mf, desc, err, done, skipped, *)
(* created] threads the field mappings, the descriptors and the raised     *)
(* exception through the calls; done and skipped record which fields a     *)
(* loop handled, created the reverse fields that were constructed.         *)
(***************************************************************************)

World(mf, desc) ==
    [mf |-> mf, desc |-> desc, err |-> None, done |-> {}, skipped |-> {},
     created |-> {}]

\* verify_related_name_dont_duplicate: the exception it raises, or None.
\* Reading .Meta of a target that is no model class (None, a ForwardRef)
\* raises AttributeError.
verify_related_name_dont_duplicate(related_name, model_field, mf) ==
    IF related_name \notin Keys(mf, model_field.to)
    THEN None
    ELSE LET fk_field == Get(mf, model_field.to, related_name) IN
         IF fk_field.unresolved \/ fk_field.to \notin Models
         THEN "AttributeError"
         ELSE IF fk_field.to # model_field.owner
                 /\ Meta(fk_field.to) # Meta(model_field.owner)
         THEN "ModelDefinitionError"
         ELSE None

\* A variant that looks at the related name only.
reverse_field_not_already_registered_related_name_only(model_field, mf) ==
    IF model_field.unresolved
    THEN [result |-> FALSE, err |-> "AttributeError"]
    ELSE
    LET related_name == get_related_name(model_field)
        check_result == related_name \notin Keys(mf, model_field.to)
        err1 == IF ~check_result
                THEN verify_related_name_dont_duplicate(
                         related_name, model_field, mf)
                ELSE None
    IN  [result |-> err1 = None /\ check_result, err |-> err1]

\* reverse_field_not_already_registered: [result, err].
reverse_field_not_already_registered(model_field, mf) ==
    IF model_field.unresolved
    THEN [result |-> FALSE, err |-> "AttributeError"]
    ELSE
    LET related_name == get_related_name(model_field)
        check_result == related_name \notin Keys(mf, model_field.to)
        check_result2 ==
            get_name(model_field.owner) \notin Keys(mf, model_field.to)
        err1 == IF ~check_result
                THEN verify_related_name_dont_duplicate(
                         related_name, model_field, mf)
                ELSE None
        err2 == IF err1 = None /\ ~check_result2
                THEN verify_related_name_dont_duplicate(
                         get_name(model_field.owner), model_field, mf)
                ELSE None
    IN  IF err1 # None THEN [result |-> FALSE, err |-> err1]
        ELSE IF err2 # None THEN [result |-> FALSE, err |-> err2]
        ELSE [result |-> check_result /\ check_result2, err |-> None]

\* register_through_shortcut_fields
register_through_shortcut_fields(model_field, w) ==
    LET through_model == model_field.through
        through_name == get_name(through_model)
        related_name == get_related_name(model_field)
        mf1 == Put(w.mf, model_field.owner,
                   Through(through_model, through_name, TRUE,
                           model_field.name, model_field.owner, TRUE))
        mf2 == Put(mf1, model_field.to,
                   Through(through_model, through_name, TRUE,
                           related_name, model_field.to, TRUE))
    IN  [w EXCEPT !.mf = mf2,
                  !.desc = [m \in Models |->
                      IF m \in {model_field.owner, model_field.to}
                      THEN w.desc[m] \cup {through_name}
                      ELSE w.desc[m]]]

\* adjust_through_many_to_many_model: the junction model gets one foreign key
\* to each endpoint, and a descriptor for each.
adjust_through_many_to_many_model(model_field, w) ==
    LET parent_name == default_target_field_name(model_field)
        child_name == default_source_field_name(model_field)
        mf1 == Put(w.mf, model_field.through,
                   ForeignKey(model_field.to, parent_name, FALSE, None,
                              model_field.through, FALSE, None, FALSE))
        mf2 == Put(mf1, model_field.through,
                   ForeignKey(model_field.owner, child_name, FALSE, None,
                              model_field.through, FALSE, None, FALSE))
    IN  [w EXCEPT !.mf = mf2,
                  !.desc[model_field.through] = @ \cup {parent_name, child_name}]

\* A variant that sets the accessor whatever skip_reverse says.
register_reverse_model_fields_always_accessor(model_field, w) ==
    LET related_name == get_related_name(model_field)
        reverse ==
            IF model_field.is_multi
            THEN ManyToMany(model_field.owner, model_field.through,
                            related_name, TRUE, model_field.name,
                            model_field.to,
                            model_field.self_reference,
                            model_field.self_reference_primary,
                            model_field.related_orders_by,
                            model_field.skip_reverse,
                            model_field.through_reverse_relation_name,
                            model_field.through_relation_name)
            ELSE ForeignKey(model_field.owner, related_name, TRUE,
                            model_field.name, model_field.to,
                            model_field.self_reference,
                            model_field.related_orders_by,
                            model_field.skip_reverse)
        w0 == [w EXCEPT !.mf = Put(w.mf, model_field.to, reverse),
                        !.created = @ \cup {reverse}]
        w1 == IF model_field.is_multi
              THEN adjust_through_many_to_many_model(model_field,
                     register_through_shortcut_fields(model_field, w0))
              ELSE w0
    IN  [w1 EXCEPT !.desc[model_field.to] = @ \cup {related_name}]

\* A variant that hands the through relation names on without swapping them.
register_reverse_model_fields_unswapped(model_field, w) ==
    LET related_name == get_related_name(model_field)
        reverse ==
            IF model_field.is_multi
            THEN ManyToMany(model_field.owner, model_field.through,
                            related_name, TRUE, model_field.name,
                            model_field.to,
                            model_field.self_reference,
                            model_field.self_reference_primary,
                            model_field.related_orders_by,
                            model_field.skip_reverse,
                            model_field.through_relation_name,
                            model_field.through_reverse_relation_name)
            ELSE ForeignKey(model_field.owner, related_name, TRUE,
                            model_field.name, model_field.to,
                            model_field.self_reference,
                            model_field.related_orders_by,
                            model_field.skip_reverse)
        w0 == [w EXCEPT !.mf = Put(w.mf, model_field.to, reverse),
                        !.created = @ \cup {reverse}]
        w1 == IF model_field.is_multi
              THEN adjust_through_many_to_many_model(model_field,
                     register_through_shortcut_fields(model_field, w0))
              ELSE w0
    IN  IF ~model_field.skip_reverse
        THEN [w1 EXCEPT !.desc[model_field.to] = @ \cup {related_name}]
        ELSE w1

\* register_reverse_model_fields
register_reverse_model_fields(model_field, w) ==
    LET related_name == get_related_name(model_field)
        reverse ==
            IF model_field.is_multi
            THEN ManyToMany(model_field.owner, model_field.through,
                            related_name, TRUE, model_field.name,
                            model_field.to,
                            model_field.self_reference,
                            model_field.self_reference_primary,
                            model_field.related_orders_by,
                            model_field.skip_reverse,
                            model_field.through_reverse_relation_name,
                            model_field.through_relation_name)
            ELSE ForeignKey(model_field.owner, related_name, TRUE,
                            model_field.name, model_field.to,
                            model_field.self_reference,
                            model_field.related_orders_by,
                            model_field.skip_reverse)
        w0 == [w EXCEPT !.mf = Put(w.mf, model_field.to, reverse),
                        !.created = @ \cup {reverse}]
        w1 == IF model_field.is_multi
              THEN adjust_through_many_to_many_model(model_field,
                     register_through_shortcut_fields(model_field, w0))
              ELSE w0
    IN  IF ~model_field.skip_reverse
        THEN [w1 EXCEPT !.desc[model_field.to] = @ \cup {related_name}]
        ELSE w1

\* A variant that writes the reverse field before it looks at the result of
\* the duplicate check.
expand_reverse_relationship_write_first(model_field, w) ==
    LET r == reverse_field_not_already_registered(model_field, w.mf) IN
    IF model_field.unresolved THEN [w EXCEPT !.err = r.err]
    ELSE IF r.err # None
    THEN [register_reverse_model_fields(model_field, w) EXCEPT !.err = r.err]
    ELSE IF r.result THEN register_reverse_model_fields(model_field, w)
    ELSE w

\* expand_reverse_relationship
expand_reverse_relationship(model_field, w) ==
    LET r == reverse_field_not_already_registered(model_field, w.mf) IN
    IF r.err # None THEN [w EXCEPT !.err = r.err]
    ELSE IF r.result THEN register_reverse_model_fields(model_field, w)
    ELSE w

\* The loop of expand_reverse_relationships over the snapshot
\* list(model.Meta.model_fields.values()); an exception ends it.
RECURSIVE expand_fields(_, _)
expand_fields(fields, w) ==
    IF fields = <<>> \/ w.err # None
    THEN w
    ELSE LET model_field == Head(fields)
             key == <<model_field.owner, model_field.name>>
         IN  IF model_field.is_relation
                /\ ~has_unresolved_forward_refs(model_field)
             THEN LET w1 == expand_reverse_relationship(model_field, w) IN
                  expand_fields(Tail(fields),
                      IF w1.err = None
                      THEN [w1 EXCEPT !.done = @ \cup {key}]
                      ELSE w1)
             ELSE expand_fields(Tail(fields),
                      IF model_field.is_relation
                      THEN [w EXCEPT !.skipped = @ \cup {key}]
                      ELSE w)

\* expand_reverse_relationships
expand_reverse_relationships(model, w) ==
    expand_fields(w.mf[model], w)

(***************************************************************************)
(* Alias registration.  am = [aliases, issued] is the alias manager.       *)
(***************************************************************************)

\* AliasManager.add_alias: a freshly generated token for the key; tokens
\* come from a counter, so no token is issued twice in a process.
add_alias(am, alias_key) ==
    [aliases |-> am.aliases @@ (alias_key :> am.issued + 1),
     issued |-> am.issued + 1]

\* AliasManager.add_relation_type(source_model, relation_name, reverse_name):
\* one entry keyed (source_model, relation_name), one keyed
\* (source_model, reverse_name); a key that has an alias keeps it.
add_relation_type(am, source_model, relation_name, reverse_name) ==
    LET parent_key == <<source_model, relation_name>>
        child_key == <<source_model, reverse_name>>
        am1 == IF parent_key \notin DOMAIN am.aliases
               THEN add_alias(am, parent_key)
               ELSE am
    IN  IF child_key \notin DOMAIN am1.aliases
        THEN add_alias(am1, child_key)
        ELSE am1

\* A variant that generates the two aliases anew on every call.
register_relation_on_build_regenerate(field, am) ==
    add_alias(add_alias([am EXCEPT !.aliases =
                            [k \in DOMAIN am.aliases \
                                 {<<field.owner, field.name>>,
                                  <<field.owner, get_source_related_name(field)>>}
                               |-> am.aliases[k]]],
                        <<field.owner, field.name>>),
              <<field.owner, get_source_related_name(field)>>)

\* A variant whose reverse entry takes over the alias of the forward entry.
register_relation_on_build_shared(field, am) ==
    LET am1 == add_relation_type(am, field.owner, field.name, field.name)
        child_key == <<field.owner, get_source_related_name(field)>>
    IN  IF child_key \in DOMAIN am1.aliases
        THEN am1
        ELSE [am1 EXCEPT !.aliases =
                 @ @@ (child_key :> @[<<field.owner, field.name>>])]

\* register_relation_on_build
register_relation_on_build(field, am) ==
    add_relation_type(am, field.owner, field.name,
                      get_source_related_name(field))

\* A variant that registers the owner side of the junction only.
register_many_to_many_relation_on_build_owner_side(field, am) ==
    add_relation_type(am, field.through,
                      default_source_field_name(field),
                      get_source_related_name(field))

\* register_many_to_many_relation_on_build
register_many_to_many_relation_on_build(field, am) ==
    add_relation_type(
        add_relation_type(am, field.through,
                          default_source_field_name(field),
                          get_source_related_name(field)),
        field.through,
        default_target_field_name(field),
        get_related_name(field))

\* A variant that registers a through shortcut like a foreign key.
register_relation_in_alias_manager_no_through_test(field, am) ==
    IF field.is_multi
    THEN IF has_unresolved_forward_refs(field)
         THEN am
         ELSE register_many_to_many_relation_on_build(field, am)
    ELSE IF field.is_relation
    THEN IF has_unresolved_forward_refs(field)
         THEN am
         ELSE register_relation_on_build(field, am)
    ELSE am

\* register_relation_in_alias_manager
register_relation_in_alias_manager(field, am) ==
    IF field.is_multi
    THEN IF has_unresolved_forward_refs(field)
         THEN am
         ELSE register_many_to_many_relation_on_build(field, am)
    ELSE IF field.is_relation /\ ~field.is_through
    THEN IF has_unresolved_forward_refs(field)
         THEN am
         ELSE register_relation_on_build(field, am)
    ELSE am

\* AliasManager.lookup(source_model, relation_name): [alias, err], the alias
\* of the key, or the error raised for a key that has none.
lookup(am, source_model, relation_name) ==
    IF <<source_model, relation_name>> \in DOMAIN am.aliases
    THEN [alias |-> am.aliases[<<source_model, relation_name>>], err |-> None]
    ELSE [alias |-> None, err |-> "NotRegisteredError"]

(***************************************************************************)
(* The schemas: the relation fields a schema author may declare.           *)
(***************************************************************************)

\* name = ormar.ForeignKey(to, related_name=, skip_reverse=,
\*                         related_orders_by=) in the body of model owner.
DeclaredForeignKey(owner, to, name, related_name, skip_reverse, related_orders_by) ==
    [ForeignKey(to, name, FALSE, related_name, owner, owner = to, None, FALSE)
        EXCEPT !.skip_reverse = skip_reverse,
               !.related_orders_by = related_orders_by]

\* name = ormar.ManyToMany(to, through=, related_name=, skip_reverse=,
\*                         through_relation_name=,
\*                         through_reverse_relation_name=) in model owner.
DeclaredManyToMany(owner, to, name, related_name, through, skip_reverse, through_relation_name, through_reverse_relation_name) ==
    [ManyToMany(to, through, name, FALSE, related_name, owner, owner = to,
                IF owner = to THEN name ELSE None, None, FALSE,
                through_relation_name, through_reverse_relation_name)
        EXCEPT !.skip_reverse = skip_reverse,
               !.related_orders_by = "-id"]

\* The same declaration with the target given by name, ForwardRef("to"),
\* before the loader has bound it.
ByForwardRef(field) == [field EXCEPT !.unresolved = TRUE]

Pool ==
    << DeclaredForeignKey("A", "B", "f", "r", FALSE, "-id"),
       DeclaredForeignKey("C", "B", "a", "r", FALSE, None),
       DeclaredForeignKey("B", "A", "a", None, FALSE, None),
       DeclaredForeignKey("A", "B", "g", "r", TRUE, None),
       DeclaredManyToMany("A", "B", "f", None, "J", FALSE, None, None),
       DeclaredManyToMany("A", "B", "f", "j", "J", FALSE, None, None),
       DeclaredManyToMany("A", "C", "g", None, "J", TRUE, "src", "dst"),
       DeclaredForeignKey("A", "A", "f", None, FALSE, None),
       DeclaredForeignKey("A", "A", "f", "f", FALSE, None),
       DeclaredManyToMany("A", "A", "f", None, "J", FALSE, None, None),
       ByForwardRef(DeclaredForeignKey("A", "B", "f", "r", FALSE, "-id")),
       ByForwardRef(
           DeclaredManyToMany("A", "B", "f", None, "J", FALSE, None, None)) >>

\* A schema: at most MaxDecl declarations, no two under one name in a model.
Schemas ==
    {S \in SUBSET DOMAIN Pool :
        /\ Cardinality(S) \in 1..MaxDecl
        /\ \A i, j \in S :
              (Pool[i].owner = Pool[j].owner /\ Pool[i].name = Pool[j].name)
                  => i = j}

\* The mapping of model m right after its class body ran: the primary key,
\* then the relation fields declared in m.
RECURSIVE DeclaredFields(_, _, _)
DeclaredFields(m, S, i) ==
    IF i > Len(Pool)
    THEN <<>>
    ELSE (IF i \in S /\ Pool[i].owner = m THEN <<Pool[i]>> ELSE <<>>)
             \o DeclaredFields(m, S, i + 1)

Init ==
    \E S \in Schemas :
        /\ model_fields =
              [m \in Models |-> <<PlainField(m, "id")>> \o DeclaredFields(m, S, 1)]
        /\ descriptors = [m \in Models |-> {}]
        /\ aliases = [k \in {} |-> 0]
        /\ issued = 0
        /\ last = [op |-> "init", err |-> None, again |-> FALSE]
        /\ declared = {<<Pool[i].owner, Pool[i].name>> : i \in S}
        /\ expanded = {}
        /\ registered = {}
        /\ deferred = {}

(***************************************************************************)
(* Actions: one per entry point the loader calls.                          *)
(***************************************************************************)

\* The declared fields among keys that are still the author's field objects.
StillDeclared(mf, keys) ==
    {k \in keys \cap declared :
        k[2] \in Keys(mf, k[1]) /\ ~Get(mf, k[1], k[2]).virtual}

\* expand_reverse_relationship(model_field) on the relation field m.k
ExpandField(m, k) ==
    /\ k \in Keys(model_fields, m)
    /\ Get(model_fields, m, k).is_relation
    /\ LET model_field == Get(model_fields, m, k)
           w == expand_reverse_relationship(model_field,
                                            World(model_fields, descriptors))
           key == StillDeclared(model_fields, {<<m, k>>})
       IN  /\ model_fields' = w.mf
           /\ descriptors' = w.desc
           /\ last' = [op |-> "expand_reverse_relationship", err |-> w.err,
                       again |-> key # {} /\ key \subseteq expanded]
           /\ expanded' = IF w.err = None THEN expanded \cup key ELSE expanded
    /\ UNCHANGED <<aliases, issued, declared, registered, deferred>>

\* expand_reverse_relationships(model)
ExpandModel(m) ==
    /\ LET w == expand_reverse_relationships(m, World(model_fields, descriptors))
           keys == StillDeclared(model_fields, w.done)
       IN  /\ model_fields' = w.mf
           /\ descriptors' = w.desc
           /\ last' = [op |-> "expand_reverse_relationships", err |-> w.err,
                       again |-> keys # {} /\ keys \subseteq expanded]
           /\ expanded' = expanded \cup keys
           /\ deferred' = deferred \cup StillDeclared(model_fields, w.skipped)
    /\ UNCHANGED <<aliases, issued, declared, registered>>

\* The fields the loader registers: those of a class body and the through
\* shortcuts, on the models of the schema.
Registrable(field) ==
    field.owner # "J" /\ (~field.virtual \/ field.is_through)

\* register_relation_in_alias_manager(field) on the field m.k
RegisterAlias(m, k) ==
    /\ k \in Keys(model_fields, m)
    /\ Registrable(Get(model_fields, m, k))
    /\ LET field == Get(model_fields, m, k)
           am == register_relation_in_alias_manager(
                     field, [aliases |-> aliases, issued |-> issued])
           key == StillDeclared(model_fields, {<<m, k>>})
       IN  /\ aliases' = am.aliases
           /\ issued' = am.issued
           /\ last' = [op |-> "register_relation_in_alias_manager",
                       err |-> None,
                       again |-> key # {} /\ key \subseteq registered]
           /\ registered' = IF field.is_relation /\ ~field.unresolved
                            THEN registered \cup key
                            ELSE registered
           /\ deferred' = IF field.is_relation /\ field.unresolved
                          THEN deferred \cup key
                          ELSE deferred
    /\ UNCHANGED <<model_fields, descriptors, declared, expanded>>

\* The loader binds the ForwardRef of the declared field m.k to its model.
Resolve(m, k) ==
    /\ k \in Keys(model_fields, m)
    /\ Get(model_fields, m, k).unresolved
    /\ model_fields' =
          Put(model_fields, m,
              [Get(model_fields, m, k) EXCEPT !.unresolved = FALSE])
    /\ last' = [op |-> "resolve", err |-> None, again |-> FALSE]
    /\ UNCHANGED <<descriptors, aliases, issued, declared, expanded,
                   registered, deferred>>

\* The loader's registration of the fields of one model, in mapping order.
RECURSIVE register_fields(_, _)
register_fields(fields, am) ==
    IF fields = <<>>
    THEN am
    ELSE register_fields(Tail(fields),
             IF Registrable(Head(fields))
             THEN register_relation_in_alias_manager(Head(fields), am)
             ELSE am)

\* The loader's pass over the models in the given order: the fields of each
\* model are registered in the alias manager and the model is expanded; an
\* exception ends the pass.  s = [w, am, seen], seen the models visited.
RECURSIVE build_models(_, _)
build_models(order, s) ==
    IF order = <<>> \/ s.w.err # None
    THEN s
    ELSE build_models(Tail(order),
             [w |-> expand_reverse_relationships(Head(order), s.w),
              am |-> register_fields(s.w.mf[Head(order)], s.am),
              seen |-> s.seen \cup {Head(order)}])

\* The orders in which the loader may visit the models of the schema.
Orders ==
    {order \in [1..Cardinality(Models) -> Models] :
        \A i, j \in DOMAIN order : order[i] = order[j] => i = j}

\* One run of the builder over the whole schema.
Build(order) ==
    /\ LET s == build_models(order,
                    [w |-> World(model_fields, descriptors),
                     am |-> [aliases |-> aliases, issued |-> issued],
                     seen |-> {}])
           fields == {x \in declared :
                         /\ x[2] \in Keys(model_fields, x[1])
                         /\ ~Get(model_fields, x[1], x[2]).virtual}
       IN  /\ model_fields' = s.w.mf
           /\ descriptors' = s.w.desc
           /\ aliases' = s.am.aliases
           /\ issued' = s.am.issued
           /\ last' = [op |-> "build", err |-> s.w.err,
                       again |-> last.op = "build" /\ last.err = None]
           /\ expanded' = expanded \cup StillDeclared(model_fields, s.w.done)
           /\ deferred' = deferred \cup StillDeclared(model_fields, s.w.skipped)
           /\ registered' =
                 registered \cup
                     {x \in fields :
                         /\ x[1] \in s.seen
                         /\ ~Get(model_fields, x[1], x[2]).unresolved}
    /\ UNCHANGED declared

FieldNames == UNION {Keys(model_fields, m) : m \in Models}

\* The reverse-relation expander and the loader's resolution of ForwardRefs.
\* None of these steps reads or writes the alias registry.
NextExpand ==
    \/ \E m \in Models : \E k \in FieldNames : ExpandField(m, k)
    \/ \E m \in Models : ExpandModel(m)
    \/ \E m \in Models : \E k \in FieldNames : Resolve(m, k)

\* Alias registration and the loader's resolution of ForwardRefs.  A
\* registration reads the field it is given and the registry, nothing else.
NextAlias ==
    \/ \E m \in Models : \E k \in FieldNames : RegisterAlias(m, k)
    \/ \E m \in Models : \E k \in FieldNames : Resolve(m, k)

\* The builder run over whole schemas, and the resolution of ForwardRefs.
NextBuild ==
    \/ \E order \in Orders : Build(order)
    \/ \E m \in Models : \E k \in FieldNames : Resolve(m, k)

Next ==
    \/ NextExpand
    \/ NextAlias
    \/ NextBuild

\* The whole builder.
Spec == Init /\ [][Next]_vars

\* The expander alone, on every schema.
SpecExpand == Init /\ [][NextExpand]_vars

\* The alias registration alone, on every schema.
SpecAlias == Init /\ [][NextAlias]_vars

\* Whole runs of the builder, on every schema.
SpecBuild == Init /\ [][NextBuild]_vars

(***************************************************************************)
(* Properties.                                                             *)
(***************************************************************************)

\* The declared field object under key x = <<owner, name>>.
FieldOf(x) == Get(model_fields, x[1], x[2])

\* The declared fields that are still the author's objects in the mappings.
Declared == StillDeclared(model_fields, declared)

\* C3 (raise, not overwrite): a call of expand_reverse_relationship that
\* fails with the naming-collision error (ModelDefinitionError) has changed no
\* model's field mapping and no relation accessor.
C3_RaiseNotOverwrite ==
    [][(last'.op = "expand_reverse_relationship"
        /\ last'.err = "ModelDefinitionError")
       => (model_fields' = model_fields /\ descriptors' = descriptors)]_vars

\* A single-field expansion has just failed with the collision error, and the
\* contested name on the target leads to another model than the caller's.
C3_Witness ==
    /\ last.op = "expand_reverse_relationship"
    /\ last.err = "ModelDefinitionError"
    /\ \E x \in Declared :
          /\ ~FieldOf(x).unresolved
          /\ get_related_name(FieldOf(x)) \in Keys(model_fields, FieldOf(x).to)
          /\ Get(model_fields, FieldOf(x).to,
                 get_related_name(FieldOf(x))).to # x[1]

\* The reverse (mirror) field of the forward field f is in the mapping mf:
\* under f's related name in f's target, leading back to f's owner, with
\* f's name as its related name.
HasMirror(mf, f) ==
    /\ get_related_name(f) \in Keys(mf, f.to)
    /\ LET g == Get(mf, f.to, get_related_name(f)) IN
          /\ g.is_relation /\ ~g.is_through /\ g.virtual
          /\ g.to = f.owner
          /\ g.related_name = f.name
          /\ g.is_multi = f.is_multi

\* The registry keys of the forward field f: for a foreign key the forward
\* and the reverse name under the owner, for a many-to-many field the four
\* names under the junction model.
AliasKeys(f) ==
    IF f.is_multi
    THEN {<<f.through, default_source_field_name(f)>>,
          <<f.through, get_source_related_name(f)>>,
          <<f.through, default_target_field_name(f)>>,
          <<f.through, get_related_name(f)>>}
    ELSE {<<f.owner, f.name>>, <<f.owner, get_source_related_name(f)>>}

\* The alias tokens the registry holds for the keys of f.
AliasTokens(f) == {aliases[k] : k \in AliasKeys(f) \cap DOMAIN aliases}

\* C1 (idempotence): once expand_reverse_relationship(f) has returned for a
\* resolved declared field f, a further call raises nothing and changes no
\* field mapping and no accessor; once f is registered, a further
\* register_relation_in_alias_manager(f) changes no registry entry; and f has
\* its one reverse field and its one pair of alias entries.
C1_Idempotence ==
    /\ [][\A x \in Declared :
            /\ (x \in expanded /\ ExpandField(x[1], x[2]))
                  => /\ last'.err = None
                     /\ model_fields' = model_fields
                     /\ descriptors' = descriptors
            /\ (x \in registered /\ RegisterAlias(x[1], x[2]))
                  => /\ aliases' = aliases
                     /\ issued' = issued]_vars
    /\ [](\A x \in Declared :
            /\ x \in expanded => HasMirror(model_fields, FieldOf(x))
            /\ (x \in registered /\ ~FieldOf(x).is_multi)
                  => Cardinality(AliasTokens(FieldOf(x))) = 2)

\* Two declared fields of distinct owners that lead to the same target and
\* resolve to the same reverse name.
SameReverseName(x, y) ==
    /\ x[1] # y[1]
    /\ ~FieldOf(x).unresolved /\ ~FieldOf(y).unresolved
    /\ FieldOf(x).to = FieldOf(y).to
    /\ get_related_name(FieldOf(x)) = get_related_name(FieldOf(y))

\* C2 (uniqueness of reverse names): when the relations of two distinct
\* owners to one target resolve to the same reverse name and the first has
\* been expanded, expanding the second raises ModelDefinitionError.
C2_Uniqueness ==
    [][\A x \in Declared : \A y \in Declared :
          (SameReverseName(x, y) /\ x \in expanded /\ y \notin expanded
             /\ ExpandField(y[1], y[2]))
          => last'.err = "ModelDefinitionError"]_vars

\* C4 (forward-reference deferral): while the target of a declared field is
\* unresolved, expand_reverse_relationships on its owner and
\* register_relation_in_alias_manager on the field create no reverse field
\* for it and no alias entry; once it is resolved and expanded again it has
\* its reverse field, and once registered again its pair of alias entries.
C4_ForwardReferenceDeferral ==
    /\ [][\A x \in Declared :
            (FieldOf(x).unresolved
               /\ (ExpandModel(x[1]) \/ RegisterAlias(x[1], x[2])))
            => /\ ~HasMirror(model_fields', FieldOf(x))
               /\ aliases' = aliases]_vars
    /\ [](\A x \in Declared \cap deferred :
            /\ x \in expanded => HasMirror(model_fields, FieldOf(x))
            /\ (x \in registered /\ ~FieldOf(x).is_multi)
                  => Cardinality(AliasTokens(FieldOf(x))) = 2)

\* Every relation field of model m has an unresolved target.
AllUnresolved(m) ==
    \A i \in DOMAIN model_fields[m] :
        model_fields[m][i].is_relation => model_fields[m][i].unresolved

\* C5 (no-op on an unresolved field): expand_reverse_relationship and
\* register_relation_in_alias_manager on a relation field whose target is
\* unresolved, and expand_reverse_relationships on a model whose relation
\* fields are all unresolved, raise nothing and change no field mapping, no
\* accessor and no registry entry.
C5_NoOpOnUnresolved ==
    [][\A m \in Models : \A k \in Keys(model_fields, m) :
          (Get(model_fields, m, k).is_relation
             /\ Get(model_fields, m, k).unresolved
             /\ \/ ExpandField(m, k)
                \/ RegisterAlias(m, k)
                \/ (AllUnresolved(m) /\ ExpandModel(m)))
          => /\ last'.err = None
             /\ model_fields' = model_fields
             /\ descriptors' = descriptors
             /\ aliases' = aliases]_vars

\* The graph after expanding the many-to-many field f: the owner holds f,
\* the target holds a many-to-many field back to the owner under the reverse
\* name with the same junction model, and both hold a through shortcut to
\* the junction model under its lower-cased name.
ManyToManySymmetric(mf, f) ==
    /\ f.name \in Keys(mf, f.owner)
    /\ Get(mf, f.owner, f.name) = f
    /\ get_related_name(f) \in Keys(mf, f.to)
    /\ LET g == Get(mf, f.to, get_related_name(f)) IN
          g.is_multi /\ g.to = f.owner /\ g.through = f.through
    /\ \A m \in {f.owner, f.to} :
          /\ get_name(f.through) \in Keys(mf, m)
          /\ Get(mf, m, get_name(f.through)).is_through
          /\ Get(mf, m, get_name(f.through)).to = f.through

\* C6 (many-to-many symmetry): expanding a resolved many-to-many field
\* A.f -> B with junction J, from a state where neither the reverse name nor
\* A's name is a key of B's mapping, leaves A with the relation to B, B with
\* a many-to-many relation back to A with junction J, and both with a
\* through shortcut to J.
C6_ManyToManySymmetry ==
    [][\A x \in Declared :
          (FieldOf(x).is_multi /\ ~FieldOf(x).unresolved
             /\ get_related_name(FieldOf(x))
                   \notin Keys(model_fields, FieldOf(x).to)
             /\ get_name(x[1]) \notin Keys(model_fields, FieldOf(x).to)
             /\ ExpandField(x[1], x[2]))
          => ManyToManySymmetric(model_fields', FieldOf(x))]_vars

\* C7 (four aliases per many-to-many edge): once a resolved many-to-many
\* field is registered, the registry holds four pairwise distinct alias
\* tokens under the junction model for its four names, also when owner and
\* target are the same model.
C7_FourAliases ==
    \A x \in Declared \cap registered :
        FieldOf(x).is_multi
        => /\ AliasKeys(FieldOf(x)) \subseteq DOMAIN aliases
           /\ Cardinality(AliasTokens(FieldOf(x))) = 4

\* A self-referential many-to-many field has been registered.
C7_Witness ==
    \E x \in Declared \cap registered :
        /\ FieldOf(x).is_multi
        /\ FieldOf(x).owner = FieldOf(x).to
        /\ Cardinality(AliasTokens(FieldOf(x))) = 4

\* C8 (self-referential foreign key): an expanded self-referential foreign
\* key f of model A has a reverse field in A's mapping under a name other
\* than f's, and once registered its forward and reverse names hold two
\* different alias tokens; for every related-name override.
C8_SelfReference ==
    \A x \in Declared :
        (~FieldOf(x).is_multi /\ FieldOf(x).owner = FieldOf(x).to)
        => /\ x \in expanded
                => \E i \in DOMAIN model_fields[x[1]] :
                      LET g == model_fields[x[1]][i] IN
                         /\ g.name # x[2]
                         /\ g.virtual /\ g.is_relation /\ ~g.is_through
                         /\ g.to = x[1]
                         /\ g.related_name = x[2]
           /\ x \in registered
                => Cardinality(AliasTokens(FieldOf(x))) = 2

\* C9 (alias stability): a key that has an alias keeps that alias through
\* every later call of register_relation_in_alias_manager, and no such call
\* raises.
C9_AliasStability ==
    [][/\ \A key \in DOMAIN aliases :
            key \in DOMAIN aliases' /\ aliases'[key] = aliases[key]
       /\ last'.op = "register_relation_in_alias_manager"
             => last'.err = None]_vars

\* A declared field that was registered before has just been registered
\* again, and the registry holds its aliases.
C9_Witness ==
    /\ last.op = "register_relation_in_alias_manager"
    /\ last.again
    /\ \E x \in Declared \cap registered : AliasTokens(FieldOf(x)) # {}

C11_RebuildNoOp ==
    [][(last'.op = "build" /\ last'.again)
       => /\ last'.err = None
          /\ model_fields' = model_fields
          /\ descriptors' = descriptors
          /\ aliases' = aliases]_vars

\* C12 (the mirror field): when expand_reverse_relationship returns without
\* error for a resolved declared field f, the mapping of f's target has an
\* entry under f's related name that leads to f's owner.
C12_MirrorSynthesized ==
    [][\A x \in Declared :
          (~FieldOf(x).unresolved /\ ExpandField(x[1], x[2])
             /\ last'.err = None)
          => /\ get_related_name(FieldOf(x))
                   \in Keys(model_fields', FieldOf(x).to)
             /\ Get(model_fields', FieldOf(x).to,
                    get_related_name(FieldOf(x))).to = x[1]]_vars

\* The through shortcut of model m to the junction model of f, with the
\* given related name, is in the mapping mf.
HasShortcut(mf, f, m, related_name) ==
    /\ get_name(f.through) \in Keys(mf, m)
    /\ LET t == Get(mf, m, get_name(f.through)) IN
          /\ t.is_through /\ t.nullable
          /\ t.to = f.through
          /\ t.related_name = related_name

\* The expansion of f creates its reverse side: f is resolved and neither
\* candidate key is in the mapping of f's target.
Creates(mf, f) ==
    /\ f.is_relation /\ ~f.unresolved
    /\ reverse_field_not_already_registered(f, mf).err = None
    /\ reverse_field_not_already_registered(f, mf).result

\* C13 (through shortcuts): when the expansion of a many-to-many field f with
\* junction J synthesizes the shortcuts, f's owner holds a shortcut under J's
\* lower-cased name with f's name as related name and f's target holds one
\* with the reverse name as related name, both through, nullable and leading
\* to J; also when owner and target are the same model.
C13_ThroughShortcuts ==
    [][\A x \in Declared :
          (FieldOf(x).is_multi /\ Creates(model_fields, FieldOf(x))
             /\ ExpandField(x[1], x[2]))
          => /\ HasShortcut(model_fields', FieldOf(x), x[1], x[2])
             /\ HasShortcut(model_fields', FieldOf(x), FieldOf(x).to,
                            get_related_name(FieldOf(x)))]_vars

\* The keys that the registrations performed so far were asked to create.
RegisteredKeys ==
    UNION {AliasKeys(FieldOf(x)) : x \in Declared \cap registered}

\* C14 (lookup failure): the lookup of every key that no registration was
\* asked to create fails with NotRegisteredError; among them the keys of the
\* through shortcuts and of the unresolved fields, whose registration is
\* skipped.
C14_LookupFailure ==
    \A m \in Models :
        \A k \in FieldNames \cup {key[2] : key \in DOMAIN aliases} \cup {""} :
            <<m, k>> \notin RegisteredKeys
            => lookup([aliases |-> aliases, issued |-> issued], m, k).err
                  = "NotRegisteredError"

\* The builder has run again over a schema whose registry holds aliases, and
\* the lookups for a through shortcut and for an unresolved declared field,
\* both visited by the registration, fail.
C14_Witness ==
    /\ last.op = "build" /\ last.again
    /\ DOMAIN aliases # {}
    /\ \E m \in Models : \E k \in Keys(model_fields, m) :
          /\ Get(model_fields, m, k).is_through
          /\ lookup([aliases |-> aliases, issued |-> issued], m, k).err
                = "NotRegisteredError"
    /\ \E x \in Declared :
          /\ FieldOf(x).unresolved
          /\ lookup([aliases |-> aliases, issued |-> issued], x[1], x[2]).err
                = "NotRegisteredError"

\* The candidate keys of f that are in the mapping of f's target: f's
\* related name and the lower-cased name of f's owner.
PresentKeys(mf, f) ==
    {get_related_name(f), get_name(f.owner)} \cap Keys(mf, f.to)

\* C15 (creation condition): expand_reverse_relationship on a resolved
\* relation field f creates the reverse field under f's related name exactly
\* when neither candidate key is in the mapping of f's target; when a
\* candidate key is present and leads to another owner it raises
\* ModelDefinitionError, and when the present keys lead to f's owner it
\* creates nothing and raises nothing.
C15_CreationCondition ==
    [][\A m \in Models : \A k \in Keys(model_fields, m) :
          LET f == Get(model_fields, m, k) IN
          (last'.op = "expand_reverse_relationship"
             /\ f.is_relation /\ ~f.unresolved /\ ExpandField(m, k))
          => IF PresentKeys(model_fields, f) = {}
             THEN /\ last'.err = None
                  /\ get_related_name(f) \in Keys(model_fields', f.to)
                  /\ Len(model_fields'[f.to]) > Len(model_fields[f.to])
             ELSE IF \E n \in PresentKeys(model_fields, f) :
                        Get(model_fields, f.to, n).to # f.owner
             THEN /\ last'.err = "ModelDefinitionError"
                  /\ model_fields' = model_fields
                  /\ descriptors' = descriptors
             ELSE /\ last'.err = None
                  /\ model_fields' = model_fields
                  /\ descriptors' = descriptors]_vars

\* A single-field expansion has just raised the collision error because the
\* target's mapping holds the owner's lower-cased name for another owner,
\* while the related name is absent from it.
C15_Witness ==
    /\ last.op = "expand_reverse_relationship"
    /\ last.err = "ModelDefinitionError"
    /\ \E x \in Declared :
          /\ x \notin expanded
          /\ ~FieldOf(x).unresolved
          /\ get_related_name(FieldOf(x))
                \notin Keys(model_fields, FieldOf(x).to)
          /\ get_name(x[1]) \in Keys(model_fields, FieldOf(x).to)
          /\ Get(model_fields, FieldOf(x).to, get_name(x[1])).to # x[1]

\* The fields of model n in the mapping mf, as a set.
FieldsOf(mf, n) == {mf[n][i] : i \in DOMAIN mf[n]}

\* C16 (through shortcuts are never expanded): a call of
\* expand_reverse_relationships on a model whose mapping holds a through
\* shortcut t adds to no model a reverse field of t, that is a field that
\* leads to t's owner and has t's name as its related name.
C16_ThroughNeverExpanded ==
    [][\A m \in Models : \A t \in FieldsOf(model_fields, m) :
          (t.is_through /\ ExpandModel(m))
          => \A n \in Models :
                \A g \in FieldsOf(model_fields', n) \ FieldsOf(model_fields, n) :
                   ~(/\ g.virtual /\ ~g.is_through
                     /\ g.to = m
                     /\ g.related_name = t.name
                     /\ g.name = get_related_name(t))]_vars

\* C17 (skip_reverse controls only the accessor): when the expansion of f
\* creates the reverse side, the target gets the accessor named after the
\* related name exactly when f.skip_reverse is not set, and in both cases the
\* target's mapping gets the entry under the related name, which carries the
\* flag.
C17_SkipReverse ==
    [][\A m \in Models : \A k \in Keys(model_fields, m) :
          LET f == Get(model_fields, m, k) IN
          (last'.op = "expand_reverse_relationship"
             /\ Creates(model_fields, f) /\ ExpandField(m, k))
          => /\ get_related_name(f) \in Keys(model_fields', f.to)
             /\ Get(model_fields', f.to, get_related_name(f)).skip_field
                   = f.skip_reverse
             /\ (get_related_name(f) \in descriptors'[f.to])
                   <=> ~f.skip_reverse]_vars

\* A declared field with skip_reverse set has been expanded: its reverse
\* field is in the target's mapping and carries the flag, and the target has
\* no accessor of that name.
C17_Witness ==
    \E x \in Declared \cap expanded :
        /\ FieldOf(x).skip_reverse
        /\ HasMirror(model_fields, FieldOf(x))
        /\ Get(model_fields, FieldOf(x).to,
               get_related_name(FieldOf(x))).skip_field
        /\ get_related_name(FieldOf(x)) \notin descriptors[FieldOf(x).to]

\* g has the shape of the reverse field of the forward field f.
MirrorShape(g, f) ==
    /\ g.owner = f.to
    /\ g.to = f.owner
    /\ g.name = get_related_name(f)
    /\ g.related_name = f.name
    /\ g.virtual /\ ~g.is_through
    /\ g.is_multi = f.is_multi
    /\ g.orders_by = f.related_orders_by
    /\ g.self_reference = f.self_reference
    /\ IF f.is_multi
       THEN /\ g.through = f.through
            /\ g.through_relation_name = f.through_reverse_relation_name
            /\ g.through_reverse_relation_name = f.through_relation_name
       ELSE g.through = None

\* C18 (shape of the mirror field): when the expansion of f creates the
\* reverse side it constructs one reverse field: owned by f's target, leading
\* to f's owner, named f's related name, with f's name as related name, of
\* f's multiplicity, with f's related ordering and self-reference flag, for a
\* many-to-many f with f's junction model and the through relation names
\* swapped, for a foreign key with no junction model.  The target's entry
\* under the related name is that field, or the through shortcut that was
\* written after it.
C18_MirrorShape ==
    [][\A m \in Models : \A k \in Keys(model_fields, m) :
          LET f == Get(model_fields, m, k)
              w == expand_reverse_relationship(
                       f, World(model_fields, descriptors))
              entry == Get(model_fields', f.to, get_related_name(f))
          IN
          (last'.op = "expand_reverse_relationship"
             /\ Creates(model_fields, f) /\ ExpandField(m, k))
          => /\ \E g \in w.created : w.created = {g} /\ MirrorShape(g, f)
             /\ get_related_name(f) \in Keys(model_fields', f.to)
             /\ entry \in w.created \/ entry.is_through]_vars

\* A declared many-to-many field with through relation names has been
\* expanded, and so has a declared foreign key with a related ordering; the
\* entries under their related names have the shape of their reverse fields.
C18_Witness ==
    /\ \E x \in Declared \cap expanded :
          /\ FieldOf(x).is_multi
          /\ FieldOf(x).through_relation_name # None
          /\ MirrorShape(Get(model_fields, FieldOf(x).to,
                             get_related_name(FieldOf(x))), FieldOf(x))
    /\ \E x \in Declared \cap expanded :
          /\ ~FieldOf(x).is_multi
          /\ FieldOf(x).related_orders_by # None
          /\ MirrorShape(Get(model_fields, FieldOf(x).to,
                             get_related_name(FieldOf(x))), FieldOf(x))

\* C19 (field mappings only grow): a call of expand_reverse_relationship or
\* expand_reverse_relationships leaves every entry that a model's mapping
\* held before the call in place and unchanged.
C19_MappingsOnlyGrow ==
    [][last'.op \in {"expand_reverse_relationship",
                     "expand_reverse_relationships"}
       => \A m \in Models :
             /\ Len(model_fields'[m]) >= Len(model_fields[m])
             /\ \A i \in DOMAIN model_fields[m] :
                   model_fields'[m][i] = model_fields[m][i]]_vars

\* C20 (mirror pairing): once the expansion of every resolved declared
\* relation field has returned without error, each of them has a field in its
\* target's mapping under its related name that leads to its owner and has
\* its name as related name.
C20_MirrorPairing ==
    (\A x \in Declared : ~FieldOf(x).unresolved => x \in expanded)
    => \A x \in Declared :
          ~FieldOf(x).unresolved
          => /\ get_related_name(FieldOf(x))
                   \in Keys(model_fields, FieldOf(x).to)
             /\ LET g == Get(model_fields, FieldOf(x).to,
                             get_related_name(FieldOf(x)))
                IN  g.related_name = x[2] /\ g.to = x[1]

====
